---- MODULE Spec2Model ----
(***************************************************************************)
(* Model of the reactive view-model layer of the exchange front-end:       *)
(*   - usePoolCreation: the pool-creation wizard state, createPool and     *)
(*     joinPool with their transaction listeners;                          *)
(*   - useInvestFormMath: fullAmounts, the batch-swap amount map and the   *)
(*     watcher that issues batch-swap queries.                             *)
(* JavaScript handlers run to completion: every action below is the        *)
(* synchronous part of a handler up to its next await.                     *)
(***************************************************************************)
EXTENDS Integers, Sequences, FiniteSets, TLC

\* ---------------------------------------------------------------- bounds
MaxCreateCalls == 2
MaxJoinCalls == 1
MaxStep == 3
MaxWeights == 2
NumAddresses == 2
MaxTokens == 2
MaxInFlight == 2

\* ------------------------------------------------------- usePoolCreation
\* poolCreationState : the reactive object of usePoolCreation.ts
\* createCalls, joinCalls : the createPool / joinPool invocations made so far,
\*                          each with its position and the transaction it got
\* chain        : the submitted transactions, indexed by hash, as the
\*                transaction listener sees them
\* transactions : the entries handed to addTransaction
VARIABLES poolCreationState, createCalls, joinCalls, chain, transactions

\* ----------------------------------------------------- useInvestFormMath
\* tokenAddresses, amounts : the refs the composable is given
\* isPhantomStablePool     : the pool kind, as usePool(pool) reports it
\* fullAmounts             : the value of the computed of that name
\* proportionalAmounts, batchSwap : the refs under STATE
\* inFlight                : the batch-swap queries awaiting their answer
\* lastQuery               : the arguments of the most recently issued query
VARIABLES tokenAddresses, amounts, isPhantomStablePool, fullAmounts,
          proportionalAmounts, batchSwap, inFlight, lastQuery

flowVars == <<createCalls, joinCalls, chain, transactions>>
investVars == <<tokenAddresses, amounts, isPhantomStablePool, fullAmounts,
                proportionalAmounts, batchSwap, inFlight, lastQuery>>
vars == <<poolCreationState, flowVars, investVars>>

\* '' : the empty string of poolId / poolAddress before any pool exists.
\* Pool ids and addresses are opaque values handed back by the pool service;
\* they are written as tagged tuples so that '' is the empty tuple.
EmptyString == <<>>

NoTx == 0

TokenAddresses == 1..NumAddresses

\* type TokenWeight, reduced to the field the modelled handlers read.
TokenWeight == [tokenAddress : TokenAddresses]

RECURSIVE SeqsUpTo(_, _)
SeqsUpTo(S, n) ==
  IF n = 0 THEN {<<>>}
  ELSE LET shorter == SeqsUpTo(S, n - 1)
       IN shorter \cup {Append(s, x) : s \in {t \in shorter : Len(t) = n - 1}, x \in S}

TokenWeightLists == SeqsUpTo(TokenWeight, MaxWeights)

FeeManagementType == {"governance", "self"}
FeeType == {"fixed", "dynamic"}
FeeController == {"self", "other"}

\* const poolCreationState = reactive({...})
InitialPoolCreationState ==
  [ name |-> "MyPool",
    tokenWeights |-> <<>>,
    activeStep |-> 0,
    initialFee |-> "0",
    isFeeGovManaged |-> FALSE,
    feeManagementType |-> "governance",
    feeType |-> "fixed",
    feeController |-> "self",
    thirdPartyFeeController |-> EmptyString,
    fee |-> "0",
    tokensList |-> <<>>,
    poolId |-> EmptyString,
    poolAddress |-> EmptyString,
    createState |-> "none",
    joinState |-> "none" ]

\* tokenWeights.map(w => w.tokenAddress)
TokensListOf(weights) == [i \in 1..Len(weights) |-> weights[i].tokenAddress]

\* The comparator of sortTokenWeights: tokenA.tokenAddress > tokenB.tokenAddress ? 1 : -1
compareTokenWeights(tokenA, tokenB) ==
  IF tokenA.tokenAddress > tokenB.tokenAddress THEN 1 ELSE -1

\* Permutations of 1..n as functions.
Perms(n) == {p \in [1..n -> 1..n] : \A i, j \in 1..n : i # j => p[i] # p[j]}

\* Array.prototype.sort with that comparator: an arrangement of the same
\* elements in which no element is followed by one the comparator puts
\* strictly before it.  The comparator never answers 0, so the order of entries
\* with equal addresses is the engine's choice.
SortedArrangements(weights) ==
  { [i \in 1..Len(weights) |-> weights[p[i]]] : p \in
      { q \in Perms(Len(weights)) :
          \A i, j \in 1..Len(weights) :
             i < j => compareTokenWeights(weights[q[i]], weights[q[j]]) # 1 } }

\* ---- the wizard's setters ------------------------------------------------

updateTokenWeights(weights) ==
  /\ poolCreationState' = [poolCreationState EXCEPT !.tokenWeights = weights]
  /\ UNCHANGED <<flowVars, investVars>>

\* watch(() => poolCreationState.tokenWeights, ..., {deep: true}): the job the
\* scheduler runs after tokenWeights was written.
watchTokenWeights ==
  /\ poolCreationState.tokensList # TokensListOf(poolCreationState.tokenWeights)
  /\ poolCreationState' =
       [poolCreationState EXCEPT !.tokensList = TokensListOf(poolCreationState.tokenWeights)]
  /\ UNCHANGED <<flowVars, investVars>>

proceed ==
  /\ poolCreationState.activeStep < MaxStep
  /\ poolCreationState' = [poolCreationState EXCEPT !.activeStep = @ + 1]
  /\ UNCHANGED <<flowVars, investVars>>

setFeeManagement(type) ==
  /\ poolCreationState' = [poolCreationState EXCEPT !.feeManagementType = type]
  /\ UNCHANGED <<flowVars, investVars>>

setFeeType(type) ==
  /\ poolCreationState' = [poolCreationState EXCEPT !.feeType = type]
  /\ UNCHANGED <<flowVars, investVars>>

\* The body ignores its parameter.
setStep(step) ==
  /\ poolCreationState' = [poolCreationState EXCEPT !.activeStep = 0]
  /\ UNCHANGED <<flowVars, investVars>>

setFeeController(controller) ==
  /\ poolCreationState' = [poolCreationState EXCEPT !.feeController = controller]
  /\ UNCHANGED <<flowVars, investVars>>

setTrpController(address) ==
  /\ poolCreationState' = [poolCreationState EXCEPT !.thirdPartyFeeController = address]
  /\ UNCHANGED <<flowVars, investVars>>

\* ---- createPool ----------------------------------------------------------

\* sortTokenWeights(): the array is sorted in place.
sortTokenWeights(state, sorted) == [state EXCEPT !.tokenWeights = sorted]

\* balancerService.pools.weighted.details(provider, tx): the pool the
\* transaction created.
PoolDetails(tx) == [id |-> <<"pool-id", tx>>, address |-> <<"pool-address", tx>>]

\* A handler that announces the pool before its details have arrived.
createdBeforeDetails(state) == [state EXCEPT !.createState = "created"]

\* onTxConfirmed of createPool before its await: nothing is assigned until the
\* pool details have arrived.
onTxConfirmedBeforeAwait(state) == state

\* The continuation of onTxConfirmed of createPool after the details arrived:
\* three assignments, in this order, with no await between them.

assignPoolDetails(state, poolDetails) ==
  LET withId == [state EXCEPT !.poolId = poolDetails.id]
      withAddress == [withId EXCEPT !.poolAddress = poolDetails.address]
  IN [withAddress EXCEPT !.createState = "created"]

\* A failure handler that forgets to record the failure.
createFailedKeepingState(state) == state

\* onTxFailed of createPool, and its catch block.
createFailed(state) == [state EXCEPT !.createState = "failed"]

\* onTxFailed of joinPool, and its catch block.
joinFailed(state) == [state EXCEPT !.joinState = "failed"]

\* createPool(), up to the await of pools.weighted.create.
createPool ==
  /\ Len(createCalls) < MaxCreateCalls
  /\ \E sorted \in SortedArrangements(poolCreationState.tokenWeights) :
       poolCreationState' =
         [sortTokenWeights(poolCreationState, sorted) EXCEPT !.createState = "creating"]
  /\ createCalls' = Append(createCalls, [pc |-> "awaitCreate", tx |-> NoTx])
  /\ UNCHANGED <<joinCalls, chain, transactions, investVars>>

\* pools.weighted.create resolved with tx: addTransaction, then txListener.
createReturns(c) ==
  /\ createCalls[c].pc = "awaitCreate"
  /\ LET hash == Len(chain) + 1
     IN /\ chain' = Append(chain, [action |-> "createpool", status |-> "pending"])
        /\ transactions' = transactions \cup
             {[id |-> hash, type |-> "tx", action |-> "createpool",
               details |-> poolCreationState.name]}
        /\ createCalls' = [createCalls EXCEPT ![c] = [pc |-> "listening", tx |-> hash]]
  /\ UNCHANGED <<poolCreationState, joinCalls, investVars>>

\* pools.weighted.create (or the evaluation of its arguments) threw: catch (e).
createThrows(c) ==
  /\ createCalls[c].pc = "awaitCreate"
  /\ poolCreationState' = createFailed(poolCreationState)
  /\ createCalls' = [createCalls EXCEPT ![c].pc = "done"]
  /\ UNCHANGED <<joinCalls, chain, transactions, investVars>>

\* The listener reports the transaction confirmed: onTxConfirmed starts and
\* awaits pools.weighted.details.
createTxConfirmed(c) ==
  /\ createCalls[c].pc = "listening"
  /\ chain' = [chain EXCEPT ![createCalls[c].tx].status = "confirmed"]
  /\ poolCreationState' = onTxConfirmedBeforeAwait(poolCreationState)
  /\ createCalls' = [createCalls EXCEPT ![c].pc = "awaitDetails"]
  /\ UNCHANGED <<joinCalls, transactions, investVars>>

\* The listener reports the transaction failed: onTxFailed.
createTxFailed(c) ==
  /\ createCalls[c].pc = "listening"
  /\ chain' = [chain EXCEPT ![createCalls[c].tx].status = "failed"]
  /\ poolCreationState' = createFailed(poolCreationState)
  /\ createCalls' = [createCalls EXCEPT ![c].pc = "done"]
  /\ UNCHANGED <<joinCalls, transactions, investVars>>

\* pools.weighted.details resolved: the rest of onTxConfirmed.
detailsReturn(c) ==
  /\ createCalls[c].pc = "awaitDetails"
  /\ poolCreationState' = assignPoolDetails(poolCreationState, PoolDetails(createCalls[c].tx))
  /\ createCalls' = [createCalls EXCEPT ![c].pc = "done"]
  /\ UNCHANGED <<joinCalls, chain, transactions, investVars>>

\* pools.weighted.details rejected: onTxConfirmed has no try around the await,
\* so its promise rejects and nothing is assigned.
detailsThrow(c) ==
  /\ createCalls[c].pc = "awaitDetails"
  /\ createCalls' = [createCalls EXCEPT ![c].pc = "done"]
  /\ UNCHANGED <<poolCreationState, joinCalls, chain, transactions, investVars>>

\* ---- joinPool ------------------------------------------------------------

\* joinPool(), up to the await of pools.weighted.initJoin; poolId is read as an
\* argument of the call.
joinPool ==
  /\ Len(joinCalls) < MaxJoinCalls
  /\ \E sorted \in SortedArrangements(poolCreationState.tokenWeights) :
       poolCreationState' =
         [sortTokenWeights(poolCreationState, sorted) EXCEPT !.joinState = "joining"]
  /\ joinCalls' = Append(joinCalls,
       [pc |-> "awaitJoin", tx |-> NoTx, poolId |-> poolCreationState.poolId])
  /\ UNCHANGED <<createCalls, chain, transactions, investVars>>

joinReturns(j) ==
  /\ joinCalls[j].pc = "awaitJoin"
  /\ LET hash == Len(chain) + 1
     IN /\ chain' = Append(chain, [action |-> "invest", status |-> "pending"])
        /\ transactions' = transactions \cup
             {[id |-> hash, type |-> "tx", action |-> "invest", details |-> "none"]}
        /\ joinCalls' = [joinCalls EXCEPT ![j].pc = "listening", ![j].tx = hash]
  /\ UNCHANGED <<poolCreationState, createCalls, investVars>>

joinThrows(j) ==
  /\ joinCalls[j].pc = "awaitJoin"
  /\ poolCreationState' = joinFailed(poolCreationState)
  /\ joinCalls' = [joinCalls EXCEPT ![j].pc = "done"]
  /\ UNCHANGED <<createCalls, chain, transactions, investVars>>

joinTxConfirmed(j) ==
  /\ joinCalls[j].pc = "listening"
  /\ chain' = [chain EXCEPT ![joinCalls[j].tx].status = "confirmed"]
  /\ poolCreationState' = [poolCreationState EXCEPT !.joinState = "joined"]
  /\ joinCalls' = [joinCalls EXCEPT ![j].pc = "done"]
  /\ UNCHANGED <<createCalls, transactions, investVars>>

joinTxFailed(j) ==
  /\ joinCalls[j].pc = "listening"
  /\ chain' = [chain EXCEPT ![joinCalls[j].tx].status = "failed"]
  /\ poolCreationState' = joinFailed(poolCreationState)
  /\ joinCalls' = [joinCalls EXCEPT ![j].pc = "done"]
  /\ UNCHANGED <<createCalls, transactions, investVars>>

\* ---- specifications of usePoolCreation -----------------------------------

InvestIdle ==
  /\ tokenAddresses = <<>>
  /\ amounts = <<>>
  /\ isPhantomStablePool = FALSE
  /\ fullAmounts = <<>>
  /\ proportionalAmounts = <<>>
  /\ batchSwap = <<>>
  /\ inFlight = {}
  /\ lastQuery = <<>>

FlowIdle ==
  /\ createCalls = <<>>
  /\ joinCalls = <<>>
  /\ chain = <<>>
  /\ transactions = {}

\* The wizard as constructed.
WizardInit ==
  /\ poolCreationState = InitialPoolCreationState
  /\ FlowIdle
  /\ InvestIdle

WizardNext ==
  \/ \E weights \in TokenWeightLists : updateTokenWeights(weights)
  \/ watchTokenWeights
  \/ proceed
  \/ \E step \in 0..MaxStep : setStep(step)
  \/ \E type \in FeeManagementType : setFeeManagement(type)
  \/ \E type \in FeeType : setFeeType(type)
  \/ \E controller \in FeeController : setFeeController(controller)
  \/ \E address \in {EmptyString, <<"controller">>} : setTrpController(address)

WizardSpec == WizardInit /\ [][WizardNext]_vars

\* The tokens the user picked in the wizard, in an order createPool has to
\* sort: every address once, highest first.
PickedTokenWeights ==
  [i \in 1..NumAddresses |-> [tokenAddress |-> NumAddresses + 1 - i]]

\* The creation flow starts once the user has picked the pool's tokens and the
\* tokensList watcher has run.
Init ==
  /\ poolCreationState = [InitialPoolCreationState EXCEPT
                            !.tokenWeights = PickedTokenWeights,
                            !.tokensList = TokensListOf(PickedTokenWeights)]
  /\ FlowIdle
  /\ InvestIdle

Next ==
  \/ createPool
  \/ \E c \in DOMAIN createCalls : createReturns(c)
  \/ \E c \in DOMAIN createCalls : createThrows(c)
  \/ \E c \in DOMAIN createCalls : createTxConfirmed(c)
  \/ \E c \in DOMAIN createCalls : createTxFailed(c)
  \/ \E c \in DOMAIN createCalls : detailsReturn(c)
  \/ \E c \in DOMAIN createCalls : detailsThrow(c)
  \/ joinPool
  \/ \E j \in DOMAIN joinCalls : joinReturns(j)
  \/ \E j \in DOMAIN joinCalls : joinThrows(j)
  \/ \E j \in DOMAIN joinCalls : joinTxConfirmed(j)
  \/ \E j \in DOMAIN joinCalls : joinTxFailed(j)
  \/ watchTokenWeights

Spec == Init /\ [][Next]_vars

\* ---- useInvestFormMath ---------------------------------------------------

\* JavaScript's null and undefined among the strings of an amounts array.
Null == "<null>"
Undefined == "<undefined>"

\* What the form and the calculator write into amounts.
AmountInputs == {Null, "", "0", "1"}
AmountStrings == {"0", "1"}

\* A pool token's address: the checksummed (mixed-case) form the pool lists,
\* or its lower-cased form.
Address(n) == [token |-> n, form |-> "checksum"]
toLowerCase(address) == [address EXCEPT !.form = "lower"]

\* The value of a decimal string, as bnum / parseUnits read it.
NumOf(amount) == IF amount = "1" THEN 1 ELSE 0

RECURSIVE Pow10(_)
Pow10(n) == IF n = 0 THEN 1 ELSE 10 * Pow10(n - 1)

\* getToken(address).decimals: token n is given n decimals.
decimalsOf(address) == address.token

\* parseUnits(amount, decimals)
parseUnits(amount, decimals) == NumOf(amount) * Pow10(decimals)

\* arr[i] of a JavaScript array (indices from 1 here): undefined past its end.
At(arr, i) == IF i \in 1..Len(arr) THEN arr[i] ELSE Undefined

\* a || b on strings, null and undefined.
Truthy(v) == v \notin {Null, Undefined, ""}
OrElse(a, b) == IF Truthy(a) THEN a ELSE b

\* arr[i] = v, which leaves holes when i is past the end.
WriteAt(arr, i, v) ==
  [k \in 1..(IF i > Len(arr) THEN i ELSE Len(arr)) |-> IF k = i THEN v ELSE At(arr, k)]

tokenCount(addresses) == Len(addresses)

\* new Array(tokenCount).fill('0'), without the map over amounts.
filledWithZero(addresses, amts) == [i \in 1..tokenCount(addresses) |-> "0"]

\* const fullAmounts = computed(...)
computeFullAmounts(addresses, amts) ==
  [i \in 1..tokenCount(addresses) |-> OrElse(At(amts, i), "0")]

\* const fullAmountsScaled = computed(...)
fullAmountsScaled(addresses, full) ==
  [i \in 1..Len(full) |-> parseUnits(full[i], decimalsOf(addresses[i]))]

\* const batchSwapAmountMap = computed(...): lower-cased address -> scaled
\* amount, for the tokens with an amount above zero.
batchSwapAmountMap(addresses, full) ==
  LET scaled == fullAmountsScaled(addresses, full)
      withAmounts == {i \in 1..Len(scaled) : scaled[i] > 0}
  IN [a \in {toLowerCase(addresses[i]) : i \in withAmounts} |->
        scaled[CHOOSE i \in withAmounts : toLowerCase(addresses[i]) = a]]

\* const hasAmounts = computed(...)
hasAmounts(full) == \E i \in 1..Len(full) : NumOf(full[i]) > 0

\* const shouldFetchBatchSwap = computed(...)
shouldFetchBatchSwap(full) == isPhantomStablePool /\ hasAmounts(full)

\* newAmounts.findIndex((amount, i) => oldAmounts[i] !== amount); 0 for -1.
changedIndex(newAmounts, oldAmounts) ==
  LET changed == {i \in 1..Len(newAmounts) : At(oldAmounts, i) # newAmounts[i]}
  IN IF changed = {} THEN 0 ELSE CHOOSE i \in changed : \A k \in changed : i <= k

\* poolCalculator.propAmountsGiven(amount, index, 'send').send for a pool whose
\* tokens are held in equal parts.
propAmountsGiven(amount, index, count) == [i \in 1..count |-> amount]

\* What queryBatchSwapTokensIn answers for the given tokens in.
BatchSwapFor(tokensIn) ==
  [assets |-> DOMAIN tokensIn, swaps |-> tokensIn]

\* batchSwap.value = await ...: the assignment once the query has answered.
assignBatchSwap(current, answer) == <<answer>>

\* watch(fullAmounts, ...) up to its await, run by the scheduler after amounts
\* was written: newAmounts is the recomputed fullAmounts, the variable
\* fullAmounts still holds oldAmounts.
watchFullAmounts(newAmounts) ==
  LET index == changedIndex(newAmounts, fullAmounts)
      query == batchSwapAmountMap(tokenAddresses, newAmounts)
  IN /\ fullAmounts' = newAmounts
     /\ proportionalAmounts' =
          IF index >= 1
            THEN propAmountsGiven(newAmounts[index], index, tokenCount(tokenAddresses))
            ELSE proportionalAmounts
     /\ IF shouldFetchBatchSwap(newAmounts)
          THEN /\ Cardinality(inFlight \cup {query}) <= MaxInFlight
               /\ inFlight' = inFlight \cup {query}
               /\ lastQuery' = <<query>>
          ELSE UNCHANGED <<inFlight, lastQuery>>

\* The form writes one input: amounts.value[i] = v.
setAmount(i, v) ==
  /\ i \in 1..tokenCount(tokenAddresses)
  /\ At(amounts, i) # v
  /\ amounts' = WriteAt(amounts, i, v)
  /\ watchFullAmounts(computeFullAmounts(tokenAddresses, amounts'))
  /\ UNCHANGED <<tokenAddresses, isPhantomStablePool, batchSwap,
                 poolCreationState, flowVars>>

\* maximizeAmounts(): every input of a pool token is written with the balance
\* the wallet reports (less the buffer for the native asset).
maximizeAmounts ==
  /\ \E balances \in [1..tokenCount(tokenAddresses) -> AmountStrings] :
       /\ amounts' = [k \in 1..(IF Len(amounts) > Len(balances)
                                   THEN Len(amounts) ELSE Len(balances)) |->
                        IF k <= Len(balances) THEN balances[k] ELSE amounts[k]]
       /\ amounts' # amounts
  /\ watchFullAmounts(computeFullAmounts(tokenAddresses, amounts'))
  /\ UNCHANGED <<tokenAddresses, isPhantomStablePool, batchSwap,
                 poolCreationState, flowVars>>

\* optimizeAmounts(): amounts.value = [...send], send from poolCalculator.propMax().
optimizeAmounts ==
  /\ \E send \in [1..tokenCount(tokenAddresses) -> AmountStrings] : amounts' = send
  /\ watchFullAmounts(computeFullAmounts(tokenAddresses, amounts'))
  /\ UNCHANGED <<tokenAddresses, isPhantomStablePool, batchSwap,
                 poolCreationState, flowVars>>

\* getBatchSwap() after its await: a query answers, in whatever order the
\* network delivers.
getBatchSwapReturns(query) ==
  /\ query \in inFlight
  /\ inFlight' = inFlight \ {query}
  /\ batchSwap' = assignBatchSwap(batchSwap, BatchSwapFor(query))
  /\ UNCHANGED <<tokenAddresses, amounts, isPhantomStablePool, fullAmounts,
                 proportionalAmounts, lastQuery, poolCreationState, flowVars>>

\* useInvestFormMath(pool, tokenAddresses, amounts, ...) for a pool of one to
\* MaxTokens tokens, with no amount entered yet.
InvestInit ==
  /\ poolCreationState = InitialPoolCreationState
  /\ FlowIdle
  /\ \E n \in 1..MaxTokens : tokenAddresses = [i \in 1..n |-> Address(i)]
  /\ isPhantomStablePool \in BOOLEAN
  /\ amounts = <<>>
  /\ fullAmounts = computeFullAmounts(tokenAddresses, amounts)
  /\ proportionalAmounts = <<>>
  /\ batchSwap = <<>>
  /\ inFlight = {}
  /\ lastQuery = <<>>

InvestNext ==
  \/ \E i \in 1..MaxTokens, v \in AmountInputs : setAmount(i, v)
  \/ maximizeAmounts
  \/ optimizeAmounts
  \/ \E query \in inFlight : getBatchSwapReturns(query)

InvestSpec == InvestInit /\ [][InvestNext]_vars

\* ---- properties ----------------------------------------------------------

\* C1: whenever createState is 'created', some createPool call has run to its
\* end with a transaction that was confirmed, and poolId and poolAddress are
\* the id and address of that transaction's pool details: 'created' is never
\* visible before both were assigned, whatever the interleaving of calls and
\* listener callbacks.
C1_CreatedOnlyAfterDetailsAssigned ==
  poolCreationState.createState = "created" =>
    \E c \in DOMAIN createCalls :
      /\ createCalls[c].pc = "done"
      /\ createCalls[c].tx # NoTx
      /\ chain[createCalls[c].tx].action = "createpool"
      /\ chain[createCalls[c].tx].status = "confirmed"
      /\ poolCreationState.poolId = <<"pool-id", createCalls[c].tx>>
      /\ poolCreationState.poolAddress = <<"pool-address", createCalls[c].tx>>

\* C1 witness: the pool of one call is 'created' while another call's
\* transaction is confirmed and its details are still awaited.
C1_Witness ==
  /\ poolCreationState.createState = "created"
  /\ \E c \in DOMAIN createCalls : createCalls[c].pc = "awaitDetails"

\* A step in which a createPool submission throws, or the listener reports a
\* createPool transaction failed.
CreateFailureStep ==
  \E c \in DOMAIN createCalls :
    \/ /\ createCalls[c].pc = "awaitCreate"
       /\ createCalls'[c].pc = "done"
    \/ /\ createCalls[c].pc = "listening"
       /\ chain'[createCalls[c].tx].status = "failed"

\* The same for joinPool.
JoinFailureStep ==
  \E j \in DOMAIN joinCalls :
    \/ /\ joinCalls[j].pc = "awaitJoin"
       /\ joinCalls'[j].pc = "done"
    \/ /\ joinCalls[j].pc = "listening"
       /\ chain'[joinCalls[j].tx].status = "failed"

\* C2: a step in which the submission of createPool (joinPool) throws or the
\* listener reports its transaction failed leaves createState (joinState) at
\* 'failed' and poolId and poolAddress as they were.
C2_FailureSetsFailedKeepsPool ==
  [][ /\ CreateFailureStep =>
           /\ poolCreationState'.createState = "failed"
           /\ poolCreationState'.poolId = poolCreationState.poolId
           /\ poolCreationState'.poolAddress = poolCreationState.poolAddress
      /\ JoinFailureStep =>
           /\ poolCreationState'.joinState = "failed"
           /\ poolCreationState'.poolId = poolCreationState.poolId
           /\ poolCreationState'.poolAddress = poolCreationState.poolAddress ]_vars

\* C2 witness: after a pool was created, a later createPool submission threw
\* and a joinPool transaction was reported failed; the pool's id is still there.
C2_Witness ==
  /\ poolCreationState.createState = "failed"
  /\ poolCreationState.joinState = "failed"
  /\ poolCreationState.poolId # EmptyString
  /\ \E c \in DOMAIN createCalls : createCalls[c].pc = "done" /\ createCalls[c].tx = NoTx
  /\ \E j \in DOMAIN joinCalls :
       /\ joinCalls[j].tx # NoTx
       /\ chain[joinCalls[j].tx].status = "failed"

\* C3: fullAmounts has one entry per pool token, equal to amounts[i] when that
\* input is present and non-empty and to '0' when it is null, missing or empty.
C3_FullAmountsPerToken ==
  /\ Len(fullAmounts) = Len(tokenAddresses)
  /\ \A i \in 1..Len(tokenAddresses) :
       fullAmounts[i] =
         IF i <= Len(amounts) /\ amounts[i] # Null /\ amounts[i] # Undefined /\ amounts[i] # ""
           THEN amounts[i]
           ELSE "0"

\* C3 witness: one input is null, missing or empty and shows as '0', another
\* holds an amount and shows as entered.
C3_Witness ==
  \E i, k \in 1..Len(tokenAddresses) :
    /\ i > Len(amounts) \/ amounts[i] \in {Null, Undefined, ""}
    /\ fullAmounts[i] = "0"
    /\ k <= Len(amounts)
    /\ amounts[k] = "1"
    /\ fullAmounts[k] = "1"

\* C4: once every issued batch-swap query has answered, batchSwap holds the
\* answer of the query issued last.
C4_LatestQueryWins ==
  (inFlight = {} /\ lastQuery # <<>>) => batchSwap = <<BatchSwapFor(lastQuery[1])>>

\* C5: once every createPool call has run to its end (its submission returned or
\* threw, its transaction was confirmed or failed, its details were answered),
\* createState is 'created' or 'failed'.
C5_CreateSettles ==
  (/\ createCalls # <<>>
   /\ \A c \in DOMAIN createCalls : createCalls[c].pc = "done")
    => poolCreationState.createState \in {"created", "failed"}

\* C6: setStep(step) leaves activeStep at step and every other field of the
\* pool-creation state as it was.
C6_SetStepSetsGivenStep ==
  [][ \A step \in 0..MaxStep :
        setStep(step) =>
          poolCreationState' = [poolCreationState EXCEPT !.activeStep = step] ]_vars

====
